---- MODULE Spec2Model ----
(***************************************************************************)
(* Differentiable one-shot NAS supernet (nni.retiarii.oneshot.pytorch):    *)
(* the mutation factories that replace choice points by surrogates, the    *)
(* surrogates' export / resample / parameter enumeration, and the DARTS    *)
(* two-phase training step.                                                *)
(***************************************************************************)
EXTENDS Integers, Sequences, FiniteSets, TLC

(* ------------------------------ bounds --------------------------------- *)

\* choice points visited by one mutation pass
MaxPoints == 2
\* largest candidate set of a choice point; the sizes are MaxCand-1 and MaxCand
MaxCand == 3
\* architecture weights take the values 0..MaxVal
MaxVal == 1
\* export calls of one export pass
MaxCalls == 2
\* labels in the search space of one mixed operation
MaxOpLabels == 1
\* calls on the surrogates (resample, forward, named_parameters) while training
MaxOps == 1
\* training steps of one run
MaxSteps == 2
\* architecture tensors, and ordinary weights, of the trained supernet
MaxParams == 2
\* gumbel_temperature and min_temp are whole numbers up to MaxTemp
MaxTemp == 3
\* trainer.max_epochs is at most MaxEpochs
MaxEpochs == 3
\* the candidates of a value choice are sizes in 1..MaxSize
MaxSize == 4

Labels == {"a", "b"}
CandSizes == (MaxCand - 1)..MaxCand

\* Optional[int] = None
None == -1

(* --------------------------- pure helpers ------------------------------ *)

Min(a, b) == IF a <= b THEN a ELSE b

Range(f) == {f[x] : x \in DOMAIN f}

\* the ascending list of a finite set of integers: sorted(...)
RECURSIVE Sorted(_)
Sorted(S) ==
    IF S = {}
    THEN <<>>
    ELSE LET least == CHOOSE x \in S : \A y \in S : x <= y
         IN  <<least>> \o Sorted(S \ {least})

\* list[:n], where n may be None
Take(list, n) == IF n = None THEN list ELSE SubSeq(list, 1, Min(n, Len(list)))

\* torch.randn(size) * 1E-3: any vector of small values
Noise(size) == [1..size -> 0..MaxVal]

\* torch.argmax(t).item(): the 0-based position of the first maximal value
argmax(t) ==
    (CHOOSE i \in 1..Len(t) :
        /\ \A j \in 1..Len(t) : t[j] <= t[i]
        /\ \A j \in 1..(i - 1) : t[j] < t[i]) - 1

\* torch.argsort(-t): the 0-based positions in descending order of value; the
\* sort is not stable, so equal values come in any order
argsort_desc(t) ==
    {p \in [1..Len(t) -> 0..(Len(t) - 1)] :
        /\ \A i, j \in 1..Len(t) : i # j => p[i] # p[j]
        /\ \A i, j \in 1..Len(t) : i < j => t[p[i] + 1] >= t[p[j] + 1]}

\* a Python str, kept apart from the int it may spell
Str(text) == <<"str", text>>
IsStr(value) == value[1] = "str"

\* the candidates of a LayerChoice built from a list are registered under
\* the names "0", "1", ... (module.named_children())
ChildNames == <<Str("0"), Str("1"), Str("2"), Str("3"), Str("4")>>
named_children(size) == SubSeq(ChildNames, 1, size)

\* the candidate values of a value choice with `size` candidates
Candidates(size) == [i \in 1..size |-> 16 * i]

(* ------------------------------- state --------------------------------- *)

VARIABLES
    heap,        \* the alpha tensors allocated so far: tensor id -> its values
    memo,        \* the memo of the mutation pass: label -> tensor id
    nas,         \* the surrogates built so far, in order (nas_modules)
    err,         \* the exception that ended the pass, or "none"
    pc,          \* "mutate" while surrogates are built, then "train", then "export"
    lastModule,  \* the module handed to the last factory or constructor call
    expMemo,     \* the memo of the export pass: label -> exported value
    emitted,     \* <<surrogate, label>> for every label an export call returned
    lastCall,    \* the last call on a surrogate: operation, arguments, result
    nCalls,      \* calls made on the surrogates in the current phase
    net,         \* the trained supernet: its architecture tensors and its weights
    tpc,         \* the statement of training_step that runs next, or "idle"
    batch_idx,   \* the batch_idx of the training step that runs (steps made before)
    local,       \* the local variables of training_step
    grad,        \* parameter -> the backward passes accumulated in its .grad
    consumed,    \* parameter -> the .grad its optimizer's last step used
    trace,       \* the events of the training step that runs, in order
    self,        \* the fields of the lightning module (the orchestrator)
    trainer,     \* the trainer's current_epoch and max_epochs
    softmax,     \* the attributes of the normalizer object the surrogates share
    epc,         \* "epoch_start" before on_epoch_start has run in the epoch, then "epoch"
    operation,   \* the mixed operation that is constructed: its class and attributes
    result       \* the outcome of the operation's last forward_with_args

specVars == <<heap, memo, nas, err, pc, lastModule, expMemo, emitted, lastCall, nCalls>>
trainVars == <<net, tpc, batch_idx, local, grad, consumed, trace>>
orchVars == <<self, trainer, softmax, epc>>
opVars == <<operation, result>>
vars == <<specVars, trainVars, orchVars, opVars>>
mutVars == <<heap, memo, nas, err, lastModule>>
expVars == <<expMemo, emitted, lastCall, nCalls>>

Empty == [x \in {} |-> 0]
NoModule == [kind |-> "none", label |-> "", size |-> 0, alpha_len |-> 0, n_chosen |-> None]

\* what lastModule keeps of a module handed to a factory
Given(module) ==
    [kind |-> module.kind, label |-> module.label, size |-> module.size,
     alpha_len |-> 0, n_chosen |-> module.n_chosen]
NoCall == [op |-> "none", idx |-> 0, memo |-> {}, again |-> {}, res |-> Empty,
           arch |-> FALSE, prefix |-> <<>>]

(* ----------------------------- surrogates ------------------------------ *)

\* Where a choice point sits in the module graph: top-level (parent 0), or
\* candidate number `slot` of the layer-choice surrogate nas[parent].
Places ==
    {[parent |-> 0, slot |-> 0]} \cup
    {[parent |-> p, slot |-> c] : p \in 1..Len(nas), c \in 1..MaxCand}

\* the place is top-level, or the first candidate of a layer-choice surrogate
\* that is still an ordinary module
FreePlace(pl) ==
    IF pl.parent = 0
    THEN TRUE
    ELSE /\ nas[pl.parent].kind = "layer"
         /\ pl.slot = 1 + Cardinality({j \in 1..Len(nas) : nas[j].parent = pl.parent})
         /\ pl.slot <= Len(nas[pl.parent].op_names)

\* a variant of MixedLayer_init_raises that accepts any alpha
MixedLayer_init_unchecked(paths, alpha_len) == FALSE

\* DifferentiableMixedLayer.__init__: the size check
MixedLayer_init_raises(paths, alpha_len) == alpha_len # Len(paths)

\* DifferentiableMixedLayer.__init__: the fields it sets
MixedLayer_init(paths, alpha, label, pl, by) ==
    [kind |-> "layer", label |-> label, arch_alpha |-> alpha,
     op_names |-> paths, n_candidates |-> Len(paths), n_chosen |-> None,
     space_spec |-> Empty, parent |-> pl.parent, slot |-> pl.slot, by |-> by]

\* DifferentiableMixedInput.__init__: the size check
MixedInput_init_raises(n_candidates, alpha_len) == alpha_len # n_candidates

\* DifferentiableMixedInput.__init__: n_chosen as the constructor leaves it.
\* The default 1 is assigned under `if n_chosen is None` and then overwritten
\* by the unconditional `self.n_chosen = n_chosen`.
MixedInput_n_chosen(n_chosen) ==
    LET defaulted == IF n_chosen = None THEN 1 ELSE None
    IN  n_chosen

\* DifferentiableMixedInput.__init__: the fields it sets
MixedInput_init(n_candidates, n_chosen, alpha, label, pl, by) ==
    [kind |-> "input", label |-> label, arch_alpha |-> alpha,
     op_names |-> <<>>, n_candidates |-> n_candidates,
     n_chosen |-> MixedInput_n_chosen(n_chosen),
     space_spec |-> Empty, parent |-> pl.parent, slot |-> pl.slot, by |-> by]

\* MixedOperation.__init__ followed by MixedOpDifferentiablePolicy.__init__:
\* operation._arch_alpha is a ParameterDict, one tensor per label of the
\* operation's search_space_spec
MixedOp_init(space, alphas, pl, by) ==
    [kind |-> "mixedop", label |-> "", arch_alpha |-> alphas,
     op_names |-> <<>>, n_candidates |-> 0, n_chosen |-> None,
     space_spec |-> space, parent |-> pl.parent, slot |-> pl.slot, by |-> by]

\* label -> alpha tensor of a surrogate, whatever its kind
Alphas(s) ==
    IF s.kind = "mixedop" THEN s.arch_alpha ELSE (s.label :> s.arch_alpha)

\* label -> number of candidates of a surrogate, whatever its kind
Sizes(s) ==
    IF s.kind = "mixedop" THEN [l \in DOMAIN s.space_spec |-> s.space_spec[l].size]
    ELSE (s.label :> s.n_candidates)

(* --------------------------- the mutation pass ------------------------- *)

NoLocal == [trn_batch |-> "", val_batch |-> "", arc_step_loss |-> Empty,
            loss_and_metrics |-> Empty]

\* before any surrogate is built
InitSupernet ==
    /\ heap = <<>>
    /\ memo = Empty
    /\ nas = <<>>
    /\ err = "none"
    /\ pc = "mutate"
    /\ lastModule = NoModule
    /\ expMemo = Empty
    /\ emitted = {}
    /\ lastCall = NoCall
    /\ nCalls = 0

\* no training step has run
InitTraining(arch, weights) ==
    /\ net = [arch |-> arch, weights |-> weights]
    /\ tpc = "idle"
    /\ batch_idx = 0
    /\ local = NoLocal
    /\ grad = [p \in arch \cup weights |-> {}]
    /\ consumed = [p \in arch \cup weights |-> {}]
    /\ trace = <<>>

\* a rational number, as the floats of the temperature schedule are modelled
Rat(num, den) == [num |-> num, den |-> den]

\* learning rates are counted in units of 1.0e-4: the default arc_learning_rate
DefaultArcLearningRate == 3

\* GumbelSoftmax.__init__: self.tau = 1
InitialTau == 1

\* nn.Softmax(-1): no temperature; GumbelSoftmax(): tau = 1, hard = False.
\* `temp` is the attribute of that name, None while it was never assigned.
Softmax_init == [class |-> "Softmax", tau |-> None, hard |-> FALSE, temp |-> None]
GumbelSoftmax_init ==
    [class |-> "GumbelSoftmax", tau |-> Rat(InitialTau, 1), hard |-> FALSE, temp |-> None]

\* DartsLightningModule.__init__ and GumbelDartsLightningModule.__init__
Module_init(variant, arc_learning_rate, gumbel_temperature, use_temp_anneal, min_temp) ==
    [variant |-> variant, arc_learning_rate |-> arc_learning_rate,
     temp |-> Rat(gumbel_temperature, 1), init_temp |-> gumbel_temperature,
     use_temp_anneal |-> use_temp_anneal, min_temp |-> min_temp]

\* the orchestrator after construction, before the first epoch
InitOrchestrator(module, max_epochs) ==
    /\ self = module
    /\ trainer = [current_epoch |-> 0, max_epochs |-> max_epochs]
    /\ softmax = IF module.variant = "gumbel" THEN GumbelSoftmax_init ELSE Softmax_init
    /\ epc = "epoch_start"

\* a plain DARTS module with the default learning rate
DefaultModule == Module_init("darts", DefaultArcLearningRate, 1, FALSE, 1)

\* no mixed operation is being constructed
NoOperation == [status |-> "none"]
NoResult == [outcome |-> "none"]
InitOperation == operation = NoOperation /\ result = NoResult

Init ==
    InitSupernet /\ InitTraining({}, {}) /\ InitOrchestrator(DefaultModule, 1) /\ InitOperation

CanBuild == pc = "mutate" /\ err = "none" /\ Len(nas) < MaxPoints

\* raise ...: the exception leaves the call, nothing was built
Raise(e) == err' = e /\ UNCHANGED <<heap, memo, nas>>

\* the factory returns the surrogate; the traversal puts it in place of the
\* choice point and collects it
Return(s, newHeap) == nas' = Append(nas, s) /\ heap' = newHeap /\ UNCHANGED <<memo, err>>

\* DifferentiableMixedLayer.mutate for a LayerChoice module
MutateLayer(module, pl) ==
    LET size == module.size
        paths == named_children(size)
    IN  IF module.label \in DOMAIN memo
        THEN LET alpha == memo[module.label]
             IN  IF Len(heap[alpha]) # size
                 THEN Raise("ValueError")
                 ELSE IF MixedLayer_init_raises(paths, Len(heap[alpha]))
                      THEN Raise("ValueError")
                      ELSE Return(MixedLayer_init(paths, alpha, module.label, pl, "mutate"), heap)
        ELSE \E values \in Noise(size) :
                IF MixedLayer_init_raises(paths, Len(values))
                THEN Raise("ValueError")
                ELSE Return(MixedLayer_init(paths, Len(heap) + 1, module.label, pl, "mutate"),
                            Append(heap, values))

\* DifferentiableMixedInput.mutate for an InputChoice module
MutateInput(module, pl) ==
    IF module.reduction \notin {"sum", "mean"}
    THEN Raise("ValueError")
    ELSE LET size == module.size
         IN  IF module.label \in DOMAIN memo
             THEN LET alpha == memo[module.label]
                  IN  IF Len(heap[alpha]) # size
                      THEN Raise("ValueError")
                      ELSE IF MixedInput_init_raises(module.size, Len(heap[alpha]))
                           THEN Raise("ValueError")
                           ELSE Return(MixedInput_init(module.size, module.n_chosen, alpha,
                                                       module.label, pl, "mutate"), heap)
             ELSE \E values \in Noise(size) :
                     IF MixedInput_init_raises(module.size, Len(values))
                     THEN Raise("ValueError")
                     ELSE Return(MixedInput_init(module.size, module.n_chosen, Len(heap) + 1,
                                                 module.label, pl, "mutate"),
                                 Append(heap, values))

\* the labels of a search space in the order the policy visits them
LabelOrder == <<"a", "b">>
LabelsIn(space) == SelectSeq(LabelOrder, LAMBDA l : l \in DOMAIN space)
IndexOf(list, x) == CHOOSE i \in 1..Len(list) : list[i] = x

\* MixedOperation.mutate for a module with value-choice arguments, with
\* mutate_kwargs['mixed_op_sampling'] = MixedOpDifferentiablePolicy:
\* MixedOpDifferentiablePolicy.__init__ takes each label's alpha from memo,
\* or makes a new one
MutateMixedOp(module, pl) ==
    LET space == module.space
        known == {l \in DOMAIN space : l \in DOMAIN memo}
        fresh == SelectSeq(LabelOrder, LAMBDA l : l \in DOMAIN space /\ l \notin DOMAIN memo)
    IN  IF \E l \in known : Len(heap[memo[l]]) # space[l].size
        THEN Raise("ValueError")
        ELSE \E values \in [Range(fresh) -> UNION {Noise(n) : n \in CandSizes}] :
                /\ \A l \in Range(fresh) : Len(values[l]) = space[l].size
                /\ LET alphas == [l \in DOMAIN space |->
                                    IF l \in known THEN memo[l]
                                    ELSE Len(heap) + IndexOf(fresh, l)]
                       newHeap == heap \o [i \in 1..Len(fresh) |-> values[fresh[i]]]
                   IN  Return(MixedOp_init(space, alphas, pl, "mutate"), newHeap)

LayerChoices ==
    [kind : {"LayerChoice"}, label : Labels, size : CandSizes,
     n_chosen : {None}, reduction : {"sum"}, space : {Empty}]

InputChoices ==
    {m \in [kind : {"InputChoice"}, label : Labels, size : CandSizes,
            n_chosen : {None} \cup 1..MaxCand, reduction : {"sum", "mean", "concat"},
            space : {Empty}] :
        m.n_chosen <= m.size}

SearchSpaces ==
    UNION {[L -> [size : CandSizes]] :
              L \in {K \in SUBSET Labels : K # {} /\ Cardinality(K) <= MaxOpLabels}}

ValueChoiceOps ==
    [kind : {"ValueChoiceOp"}, label : {""}, size : {0}, n_chosen : {None},
     reduction : {"sum"},
     space : {[l \in DOMAIN sp |-> [size |-> sp[l].size, values |-> Candidates(sp[l].size)]] :
                 sp \in SearchSpaces}]

MutateLayerChoice ==
    /\ CanBuild
    /\ \E module \in LayerChoices, pl \in Places :
          /\ FreePlace(pl)
          /\ lastModule' = Given(module)
          /\ MutateLayer(module, pl)
    /\ UNCHANGED <<pc, expVars, trainVars, orchVars, opVars>>

MutateInputChoice ==
    /\ CanBuild
    /\ \E module \in InputChoices, pl \in Places :
          /\ FreePlace(pl)
          /\ lastModule' = Given(module)
          /\ MutateInput(module, pl)
    /\ UNCHANGED <<pc, expVars, trainVars, orchVars, opVars>>

MutateValueChoiceOp ==
    /\ CanBuild
    /\ \E module \in ValueChoiceOps, pl \in Places :
          /\ FreePlace(pl)
          /\ lastModule' = Given(module)
          /\ MutateMixedOp(module, pl)
    /\ UNCHANGED <<pc, expVars, trainVars, orchVars, opVars>>

\* DifferentiableMixedLayer(paths, alpha, softmax, label), called directly
\* with a tensor made earlier
NewMixedLayer ==
    /\ CanBuild
    /\ \E label \in Labels, size \in CandSizes, alpha \in 1..Len(heap) :
          /\ lastModule' = [kind |-> "paths", label |-> label, size |-> size,
                            alpha_len |-> Len(heap[alpha]), n_chosen |-> None]
          /\ IF MixedLayer_init_raises(named_children(size), Len(heap[alpha]))
             THEN Raise("ValueError")
             ELSE Return(MixedLayer_init(named_children(size), alpha, label,
                                         [parent |-> 0, slot |-> 0], "new"), heap)
    /\ UNCHANGED <<pc, expVars, trainVars, orchVars, opVars>>

\* DifferentiableMixedInput(n_candidates, n_chosen, alpha, softmax, label),
\* called directly with a tensor made earlier
NewMixedInput ==
    /\ CanBuild
    /\ \E label \in Labels, size \in CandSizes, alpha \in 1..Len(heap),
          n_chosen \in {None} \cup 1..MaxCand :
          /\ n_chosen <= size
          /\ lastModule' = [kind |-> "n_candidates", label |-> label, size |-> size,
                            alpha_len |-> Len(heap[alpha]), n_chosen |-> n_chosen]
          /\ IF MixedInput_init_raises(size, Len(heap[alpha]))
             THEN Raise("ValueError")
             ELSE Return(MixedInput_init(size, n_chosen, alpha, label,
                                         [parent |-> 0, slot |-> 0], "new"), heap)
    /\ UNCHANGED <<pc, expVars, trainVars, orchVars, opVars>>

\* the mutation pass is over: the supernet is built and training starts
Built ==
    /\ pc = "mutate" /\ err = "none" /\ Len(nas) > 0
    /\ pc' = "train"
    /\ UNCHANGED <<mutVars, expVars, trainVars, orchVars, opVars>>

\* training is over: the export pass starts with an empty memo
StartExport ==
    /\ pc = "train"
    /\ pc' = "export"
    /\ lastCall' = NoCall
    /\ nCalls' = 0
    /\ UNCHANGED <<mutVars, expMemo, emitted, trainVars, orchVars, opVars>>

(* ------------------------- export and resample ------------------------- *)

\* search_space_spec() of a surrogate: label -> ParameterSpec(size, chosen_size)
search_space_spec(s) ==
    CASE s.kind = "layer" ->
           (s.label :> [size |-> Len(s.op_names), chosen_size |-> 1])
      [] s.kind = "input" ->
           (s.label :> [size |-> s.n_candidates, chosen_size |-> s.n_chosen])
      [] s.kind = "mixedop" ->
           [l \in DOMAIN s.space_spec |-> [size |-> s.space_spec[l].size, chosen_size |-> 1]]

\* a variant of MixedLayer_export that always names the first candidate
MixedLayer_export_first(s, m) ==
    IF s.label \in DOMAIN m THEN {Empty} ELSE {(s.label :> s.op_names[1])}

\* DifferentiableMixedLayer.export
MixedLayer_export(s, m) ==
    IF s.label \in DOMAIN m
    THEN {Empty}
    ELSE {(s.label :> s.op_names[argmax(heap[s.arch_alpha]) + 1])}

\* a variant of MixedInput_chosen that leaves the chosen positions in score
\* order
MixedInput_chosen_unsorted(s, order) ==
    LET chosen == Take(order, s.n_chosen)
    IN  IF Len(chosen) = 1 THEN chosen[1] ELSE chosen

\* DifferentiableMixedInput.export: the value it returns for one outcome of
\* argsort
MixedInput_chosen(s, order) ==
    LET chosen == Sorted(Range(Take(order, s.n_chosen)))
    IN  IF Len(chosen) = 1 THEN chosen[1] ELSE chosen

\* DifferentiableMixedInput.export
MixedInput_export(s, m) ==
    IF s.label \in DOMAIN m
    THEN {Empty}
    ELSE {(s.label :> MixedInput_chosen(s, order)) : order \in argsort_desc(heap[s.arch_alpha])}

\* MixedOpDifferentiablePolicy.export: every label of the operation's search
\* space gets its arg-max value; `name in result` looks at the result being
\* built, whose keys are the labels visited before, and memo is not read
Policy_export(s, m) ==
    {[name \in DOMAIN s.space_spec |->
        s.space_spec[name].values[argmax(heap[s.arch_alpha[name]]) + 1]]}

\* MixedOperation.export delegates to the sampling policy
MixedOperation_export(s, m) == Policy_export(s, m)

\* the results export(memo) can return
export(s, m) ==
    CASE s.kind = "layer" -> MixedLayer_export(s, m)
      [] s.kind = "input" -> MixedInput_export(s, m)
      [] s.kind = "mixedop" -> MixedOperation_export(s, m)

\* a variant of resample that draws a candidate for every label of the
\* surrogate the memo does not hold
resample_sampling(s, m) ==
    [l \in DOMAIN search_space_spec(s) \ DOMAIN m |-> 0]

\* resample(memo) of the three differentiable surrogates
resample(s, m) == Empty

\* the export pass merges what a surrogate returned into the memo it hands to
\* the next one: result.update(module.export(memo=result))
MemoUpdate(m, res) ==
    [l \in DOMAIN m \cup DOMAIN res |-> IF l \in DOMAIN res THEN res[l] ELSE m[l]]

\* one surrogate's export(memo) within the export pass
Export ==
    /\ pc = "export" /\ nCalls < MaxCalls
    /\ \E i \in 1..Len(nas) : \E res \in export(nas[i], expMemo) :
          /\ lastCall' = [NoCall EXCEPT !.op = "export", !.idx = i,
                                        !.memo = DOMAIN expMemo,
                                        !.again = {l \in Labels : <<i, l>> \in emitted},
                                        !.res = res]
          /\ expMemo' = MemoUpdate(expMemo, res)
          /\ emitted' = emitted \cup {<<i, l>> : l \in DOMAIN res}
    /\ nCalls' = nCalls + 1
    /\ UNCHANGED <<mutVars, pc, trainVars, orchVars, opVars>>

\* one surrogate's resample(memo), with any memo
Resample ==
    /\ pc = "train" /\ nCalls < MaxOps
    /\ \E i \in 1..Len(nas), keys \in {{}, Labels} :
          lastCall' = [NoCall EXCEPT !.op = "resample", !.idx = i, !.memo = keys,
                                     !.res = resample(nas[i], [l \in keys |-> 0])]
    /\ nCalls' = nCalls + 1
    /\ UNCHANGED <<mutVars, pc, expMemo, emitted, trainVars, orchVars, opVars>>

(* ------------------------ parameter enumeration ------------------------ *)

\* a parameter tensor: an alpha of the heap, or the weight of candidate c of
\* surrogate i (c = 0: the weight of a mixed operation itself)
AlphaTensor(id) == <<"alpha", id, 0>>
WeightTensor(i, c) == <<"w", i, c>>
IsArchTensor(t) == t[1] = "alpha"

\* the surrogate that is candidate c of layer surrogate i, or 0
NestedAt(i, c) ==
    IF \E j \in 1..Len(nas) : nas[j].parent = i /\ nas[j].slot = c
    THEN CHOOSE j \in 1..Len(nas) : nas[j].parent = i /\ nas[j].slot = c
    ELSE 0

RECURSIVE Module_members(_, _)
RECURSIVE Children_members(_, _, _)

\* nn.Module.named_parameters before de-duplication: the module's own
\* _parameters, then those of its submodules in registration order, each name
\* the path from the module, after `prefix`. It reads every submodule's
\* _parameters itself; a submodule's own named_parameters is not called.
Module_members(i, prefix) ==
    LET s == nas[i]
    IN  CASE s.kind = "layer" ->
               <<<<prefix \o <<"_arch_alpha">>, AlphaTensor(s.arch_alpha)>>>>
               \o Children_members(i, 1, prefix)
          [] s.kind = "input" ->
               <<<<prefix \o <<"_arch_alpha">>, AlphaTensor(s.arch_alpha)>>>>
          [] s.kind = "mixedop" ->
               <<<<prefix \o <<"weight">>, WeightTensor(i, 0)>>>>
               \o [k \in 1..Len(LabelsIn(s.space_spec)) |->
                     <<prefix \o <<"_arch_alpha", LabelsIn(s.space_spec)[k]>>,
                       AlphaTensor(s.arch_alpha[LabelsIn(s.space_spec)[k]])>>]

\* the candidates c, c+1, ... of layer surrogate i
Children_members(i, c, prefix) ==
    IF c > Len(nas[i].op_names)
    THEN <<>>
    ELSE (IF NestedAt(i, c) # 0
          THEN Module_members(NestedAt(i, c), prefix \o <<nas[i].op_names[c][2]>>)
          ELSE <<<<prefix \o <<nas[i].op_names[c][2], "weight">>, WeightTensor(i, c)>>>>)
         \o Children_members(i, c + 1, prefix)

\* nn.Module.named_parameters yields each tensor once, under its first name
RemoveDuplicate(members) ==
    LET marked == SelectSeq([k \in 1..Len(members) |->
                               <<members[k][1], members[k][2],
                                 \A j \in 1..(k - 1) : members[j][2] # members[k][2]>>],
                            LAMBDA e : e[3])
    IN  [k \in 1..Len(marked) |-> <<marked[k][1], marked[k][2]>>]

\* super().named_parameters(prefix=prefix)
super_named_parameters(i, prefix) == RemoveDuplicate(Module_members(i, prefix))

\* DifferentiableMixedLayer.named_parameters and
\* DifferentiableMixedInput.named_parameters: name == par_name
IsArchName(name) == name = <<"_arch_alpha">>

\* MixedOpDifferentiablePolicy.named_parameters: name.startswith(par_name)
IsArchPrefixed(name) == Head(name) = "_arch_alpha"

\* a variant of named_parameters without the filter on the name
named_parameters_unfiltered(i, prefix, arch) == super_named_parameters(i, prefix)

\* named_parameters(prefix=prefix, arch=arch) of surrogate i
named_parameters(i, prefix, arch) ==
    IF nas[i].kind = "mixedop"
    THEN SelectSeq(super_named_parameters(i, prefix),
                   LAMBDA e : IF IsArchPrefixed(e[1]) THEN arch ELSE ~arch)
    ELSE SelectSeq(super_named_parameters(i, prefix),
                   LAMBDA e : IF IsArchName(e[1]) THEN arch ELSE ~arch)

\* parameters(prefix=prefix, arch=arch) of surrogate i
parameters(i, prefix, arch) ==
    LET named == named_parameters(i, prefix, arch)
    IN  [k \in 1..Len(named) |-> named[k][2]]

Prefixes == {<<>>, <<"model">>}

\* one call of a surrogate's named_parameters
NamedParameters ==
    /\ pc = "train" /\ nCalls < MaxOps
    /\ \E i \in 1..Len(nas), prefix \in Prefixes, arch \in BOOLEAN :
          lastCall' = [NoCall EXCEPT !.op = "named_parameters", !.idx = i,
                                     !.arch = arch, !.prefix = prefix,
                                     !.res = named_parameters(i, prefix, arch)]
    /\ nCalls' = nCalls + 1
    /\ UNCHANGED <<mutVars, pc, expMemo, emitted, trainVars, orchVars, opVars>>

(* ------------------------------- forward ------------------------------- *)

\* the candidates that enter the weighted sum of a forward pass: all of them
forward(s) ==
    CASE s.kind = "layer" -> Range(s.op_names)
      [] s.kind = "input" -> 0..(s.n_candidates - 1)
      [] s.kind = "mixedop" -> UNION {Range(s.space_spec[l].values) : l \in DOMAIN s.space_spec}

\* one forward pass through a surrogate
Forward ==
    /\ pc = "train" /\ nCalls < MaxOps
    /\ \E i \in 1..Len(nas) :
          lastCall' = [NoCall EXCEPT !.op = "forward", !.idx = i, !.res = forward(nas[i])]
    /\ nCalls' = nCalls + 1
    /\ UNCHANGED <<mutVars, pc, expMemo, emitted, trainVars, orchVars, opVars>>

(* ----------------------- the architecture optimizer -------------------- *)

\* torch.optim.Adam(..., 3.e-4, ...): the learning rate, in units of 1.0e-4
AdamLearningRate == 3

\* ctrl_params after the loop has visited nas_modules[k..]:
\*   for m in self.nas_modules: ctrl_params += list(m.parameters(arch=True))
RECURSIVE ctrl_params(_)
ctrl_params(k) ==
    IF k > Len(nas) THEN <<>> ELSE parameters(k, <<>>, TRUE) \o ctrl_params(k + 1)

\* a variant of list_of_set that keeps the list as it is
list_as_is(list) == {list}

\* list(set(list)): the distinct elements, in the order the set iterates
\* them, which is any order
list_of_set(list) ==
    LET distinct == Range(list)
    IN  {order \in [1..Cardinality(distinct) -> distinct] :
            \A a, b \in 1..Cardinality(distinct) : a # b => order[a] # order[b]}

\* DartsLightningModule.configure_architecture_optimizers: the optimizers
\* it can return
configure_architecture_optimizers ==
    {[class |-> "Adam", params |-> params, lr |-> AdamLearningRate] :
        params \in list_of_set(ctrl_params(1))}

\* the trainer asks the module for its architecture optimizer
ConfigureArchitectureOptimizers ==
    /\ pc = "train" /\ nCalls < MaxOps
    /\ \E ctrl_optim \in configure_architecture_optimizers :
          lastCall' = [NoCall EXCEPT !.op = "configure_architecture_optimizers",
                                     !.res = ctrl_optim]
    /\ nCalls' = nCalls + 1
    /\ UNCHANGED <<mutVars, pc, expMemo, emitted, trainVars, orchVars, opVars>>

Next ==
    \/ MutateLayerChoice
    \/ MutateInputChoice
    \/ MutateValueChoiceOp
    \/ NewMixedLayer
    \/ NewMixedInput
    \/ Built
    \/ StartExport
    \/ Export
    \/ Resample
    \/ NamedParameters
    \/ Forward
    \/ ConfigureArchitectureOptimizers

Spec == Init /\ [][Next]_vars

(* --------------------------- the training step ------------------------- *)

\* the supernet that is trained: its architecture tensors (the parameters of
\* the architecture optimizer) and its ordinary weights
Supernets ==
    {[arch |-> {AlphaTensor(k) : k \in 1..a}, weights |-> {WeightTensor(k, 0) : k \in 1..w}] :
        a \in 1..MaxParams, w \in 1..MaxParams}

InitTrain ==
    /\ InitSupernet
    /\ InitOrchestrator(DefaultModule, 1)
    /\ InitOperation
    /\ \E n \in Supernets : InitTraining(n.arch, n.weights)

\* every parameter of the supernet; all of them require grad
AllParams == net.arch \cup net.weights

\* the parameters of self.architecture_optimizers
ArcOptimParams == net.arch

\* the parameters of the user's optimizers: the ordinary weights
UserOptimParams == net.weights

\* what the driver hands to training_step: (batch[0], batch[1])
Batch == <<"batch[0]", "batch[1]">>

\* a variant of zero_grad that leaves every .grad as it is
zero_grad_kept(params) == grad

\* optimizer.zero_grad() over `params`
zero_grad(params) == [p \in DOMAIN grad |-> IF p \in params THEN {} ELSE grad[p]]

\* manual_backward(loss): loss.backward() adds to the .grad of every
\* parameter that requires grad and that the loss depends on
manual_backward(pass) == [p \in DOMAIN grad |-> grad[p] \cup {pass}]

\* optimizer.step() over `params`: each uses the .grad it finds
optimizer_step(params) ==
    [p \in DOMAIN consumed |-> IF p \in params THEN grad[p] ELSE consumed[p]]

\* self.model.training_step(batch, idx): a loss, alone or in a dict of metrics
model_training_step(b, idx) ==
    {[kind |-> k, batch |-> b, idx |-> idx] : k \in {"tensor", "dict"}}

Goto(next, event) ==
    /\ tpc' = next
    /\ trace' = Append(trace, event)

\* a variant of StepBegin that unpacks the pair the other way round
StepBegin_swapped ==
    /\ tpc = "idle" /\ batch_idx < MaxSteps
    /\ local' = [NoLocal EXCEPT !.trn_batch = Batch[2], !.val_batch = Batch[1]]
    /\ tpc' = "arc_resample"
    /\ trace' = <<>>
    /\ UNCHANGED <<opVars, orchVars, specVars, net, batch_idx, grad, consumed>>

\* training_step: arc_optim = ...; trn_batch, val_batch = batch
StepBegin ==
    /\ tpc = "idle" /\ batch_idx < MaxSteps
    /\ local' = [NoLocal EXCEPT !.trn_batch = Batch[1], !.val_batch = Batch[2]]
    /\ tpc' = "arc_resample"
    /\ trace' = <<>>
    /\ UNCHANGED <<opVars, orchVars, specVars, net, batch_idx, grad, consumed>>

\* self.resample()
ArcResample ==
    /\ tpc = "arc_resample"
    /\ Goto("arc_zero_grad", "resample")
    /\ UNCHANGED <<opVars, orchVars, specVars, net, batch_idx, local, grad, consumed>>

\* arc_optim.zero_grad()
ArcZeroGrad ==
    /\ tpc = "arc_zero_grad"
    /\ grad' = zero_grad(ArcOptimParams)
    /\ Goto("arc_forward", "arc_zero_grad")
    /\ UNCHANGED <<opVars, orchVars, specVars, net, batch_idx, local, consumed>>

\* arc_step_loss = self.model.training_step(val_batch, 2 * batch_idx), and
\* arc_step_loss['loss'] when it is a dict
ArcForward ==
    /\ tpc = "arc_forward"
    /\ \E loss \in model_training_step(local.val_batch, 2 * batch_idx) :
          local' = [local EXCEPT !.arc_step_loss = [loss EXCEPT !.kind = "tensor"]]
    /\ Goto("arc_backward", "arc_forward")
    /\ UNCHANGED <<opVars, orchVars, specVars, net, batch_idx, grad, consumed>>

\* self.manual_backward(arc_step_loss)
ArcBackward ==
    /\ tpc = "arc_backward"
    /\ grad' = manual_backward(<<batch_idx, "arc">>)
    /\ Goto("finalize_grad", "arc_backward")
    /\ UNCHANGED <<opVars, orchVars, specVars, net, batch_idx, local, consumed>>

\* self.finalize_grad(): pass
FinalizeGrad ==
    /\ tpc = "finalize_grad"
    /\ Goto("arc_step", "finalize_grad")
    /\ UNCHANGED <<opVars, orchVars, specVars, net, batch_idx, local, grad, consumed>>

\* arc_optim.step()
ArcStep ==
    /\ tpc = "arc_step"
    /\ consumed' = optimizer_step(ArcOptimParams)
    /\ Goto("w_resample", "arc_step")
    /\ UNCHANGED <<opVars, orchVars, specVars, net, batch_idx, local, grad>>

\* self.resample()
WResample ==
    /\ tpc = "w_resample"
    /\ Goto("w_zero_grad", "resample")
    /\ UNCHANGED <<opVars, orchVars, specVars, net, batch_idx, local, grad, consumed>>

\* a variant of WZeroGrad: the weight phase without its zero_grad
WZeroGrad_omitted ==
    /\ tpc = "w_zero_grad"
    /\ tpc' = "w_forward"
    /\ UNCHANGED <<opVars, orchVars, specVars, net, batch_idx, local, grad, consumed, trace>>

\* self.call_user_optimizers('zero_grad')
WZeroGrad ==
    /\ tpc = "w_zero_grad"
    /\ grad' = zero_grad(UserOptimParams)
    /\ Goto("w_forward", "w_zero_grad")
    /\ UNCHANGED <<opVars, orchVars, specVars, net, batch_idx, local, consumed>>

\* loss_and_metrics = self.model.training_step(trn_batch, 2 * batch_idx + 1)
WForward ==
    /\ tpc = "w_forward"
    /\ \E loss \in model_training_step(local.trn_batch, 2 * batch_idx + 1) :
          local' = [local EXCEPT !.loss_and_metrics = loss]
    /\ Goto("w_backward", "w_forward")
    /\ UNCHANGED <<opVars, orchVars, specVars, net, batch_idx, grad, consumed>>

\* self.manual_backward(w_step_loss)
WBackward ==
    /\ tpc = "w_backward"
    /\ grad' = manual_backward(<<batch_idx, "w">>)
    /\ Goto("w_step", "w_backward")
    /\ UNCHANGED <<opVars, orchVars, specVars, net, batch_idx, local, consumed>>

\* self.call_user_optimizers('step')
WStep ==
    /\ tpc = "w_step"
    /\ consumed' = optimizer_step(UserOptimParams)
    /\ Goto("lr_sched", "w_step")
    /\ UNCHANGED <<opVars, orchVars, specVars, net, batch_idx, local, grad>>

\* self.call_lr_schedulers(batch_idx); return loss_and_metrics
StepEnd ==
    /\ tpc = "lr_sched"
    /\ Goto("idle", "lr_sched")
    /\ batch_idx' = batch_idx + 1
    /\ UNCHANGED <<opVars, orchVars, specVars, net, local, grad, consumed>>

NextTrain ==
    \/ StepBegin
    \/ ArcResample
    \/ ArcZeroGrad
    \/ ArcForward
    \/ ArcBackward
    \/ FinalizeGrad
    \/ ArcStep
    \/ WResample
    \/ WZeroGrad
    \/ WForward
    \/ WBackward
    \/ WStep
    \/ StepEnd

SpecTrain == InitTrain /\ [][NextTrain]_vars

(* ---------------------------- the orchestrator ------------------------- *)

\* the module variants: DartsLightningModule and its two subclasses
Variants == {"darts", "proxyless", "gumbel"}

\* arc_learning_rate, in units of 1.0e-4
LearningRates == {DefaultArcLearningRate, 10}

\* a supernet as the constructor leaves it: one layer-choice surrogate
InitBuilt ==
    /\ \E values \in Noise(MaxCand - 1) : heap = <<values>>
    /\ memo = Empty
    /\ nas = <<MixedLayer_init(named_children(MaxCand - 1), 1, "a",
                               [parent |-> 0, slot |-> 0], "mutate")>>
    /\ err = "none"
    /\ pc = "train"
    /\ lastModule = NoModule
    /\ expMemo = Empty
    /\ emitted = {}
    /\ lastCall = NoCall
    /\ nCalls = 0

InitOrch ==
    /\ InitBuilt
    /\ InitTraining({}, {})
    /\ InitOperation
    /\ \E variant \in Variants, arc_learning_rate \in LearningRates,
          gumbel_temperature \in 1..MaxTemp, use_temp_anneal \in BOOLEAN,
          min_temp \in 1..MaxTemp, max_epochs \in 1..MaxEpochs :
          /\ variant # "gumbel" => (gumbel_temperature = 1 /\ ~use_temp_anneal /\ min_temp = 1)
          /\ InitOrchestrator(Module_init(variant, arc_learning_rate, gumbel_temperature,
                                          use_temp_anneal, min_temp), max_epochs)

\* a == b and a < b for rationals with positive denominators
RatEq(a, b) == a.num * b.den = b.num * a.den
RatLess(a, b) == a.num * b.den < b.num * a.den

\* max(a, b) of Python: a unless b is larger
RatMax(a, b) == IF RatLess(a, b) THEN b ELSE a

\* a variant of annealed_temp without the floor
annealed_temp_unfloored(module, current_epoch, max_epochs) ==
    Rat((max_epochs - current_epoch) * (module.init_temp - module.min_temp)
            + module.min_temp * max_epochs, max_epochs)

\* on_epoch_start with use_temp_anneal:
\*   temp = (1 - current_epoch / max_epochs) * (init_temp - min_temp) + min_temp
\*   temp = max(temp, min_temp)
annealed_temp(module, current_epoch, max_epochs) ==
    LET fraction == Rat(max_epochs - current_epoch, max_epochs)
        scaled == Rat(fraction.num * (module.init_temp - module.min_temp), fraction.den)
        shifted == Rat(scaled.num + module.min_temp * scaled.den, scaled.den)
    IN  RatMax(shifted, Rat(module.min_temp, 1))

\* GumbelSoftmax.forward: the temperature handed to F.gumbel_softmax
GumbelSoftmax_forward(sm) == [tau |-> sm.tau, hard |-> sm.hard]

\* GumbelDartsLightningModule.on_epoch_start
OnEpochStart ==
    /\ epc = "epoch_start" /\ self.variant = "gumbel"
    /\ LET temp == IF self.use_temp_anneal
                   THEN annealed_temp(self, trainer.current_epoch, trainer.max_epochs)
                   ELSE self.temp
       IN  /\ self' = [self EXCEPT !.temp = temp]
           /\ softmax' = [softmax EXCEPT !.temp = temp]
    /\ epc' = "epoch"
    /\ UNCHANGED <<opVars, specVars, trainVars, trainer>>

\* on_epoch_start of the other variants, which do not override it
OnEpochStartInherited ==
    /\ epc = "epoch_start" /\ self.variant # "gumbel"
    /\ epc' = "epoch"
    /\ UNCHANGED <<opVars, specVars, trainVars, self, trainer, softmax>>

\* a forward pass of a surrogate of the Gumbel variant: self._softmax(alpha)
SoftmaxForward ==
    /\ epc = "epoch" /\ self.variant = "gumbel"
    /\ \E i \in 1..Len(nas) :
          lastCall' = [NoCall EXCEPT !.op = "softmax", !.idx = i,
                                     !.res = GumbelSoftmax_forward(softmax)]
    /\ epc' = "forwarded"
    /\ UNCHANGED <<mutVars, pc, expMemo, emitted, nCalls, trainVars, self, trainer, softmax,
                   opVars>>

\* the epoch ends and the trainer moves to the next one
EpochEnd ==
    /\ epc \in {"epoch", "forwarded"}
    /\ trainer.current_epoch + 1 < trainer.max_epochs
    /\ trainer' = [trainer EXCEPT !.current_epoch = @ + 1]
    /\ epc' = "epoch_start"
    /\ UNCHANGED <<opVars, specVars, trainVars, self, softmax>>

NextOrch ==
    \/ ConfigureArchitectureOptimizers
    \/ OnEpochStart
    \/ OnEpochStartInherited
    \/ SoftmaxForward
    \/ EpochEnd

SpecOrch == InitOrch /\ [][NextOrch]_vars

(* --------------------------- mixed operations -------------------------- *)

\* Python values of the arguments: an int (or float), a pair of ints, or the
\* dict a sampling policy hands over as a weighted distribution
PyInt(n) == [type |-> "int", a |-> n, b |-> n]
PyTuple(a, b) == [type |-> "tuple", a |-> a, b |-> b]
PyDict(keys) == [type |-> "dict", keys |-> keys]
Raised(exception) == [type |-> exception]

\* x < y for two ints, or for two tuples (compared item by item)
PyLess(x, y) ==
    IF x.type = "int" THEN x.a < y.a ELSE x.a < y.a \/ (x.a = y.a /\ x.b < y.b)

\* max(values) and min(values); comparing an int with a tuple is a TypeError
py_max(values) ==
    IF \E x, y \in Range(values) : x.type # y.type
    THEN Raised("TypeError")
    ELSE CHOOSE m \in Range(values) : \A x \in Range(values) : ~PyLess(m, x)
py_min(values) ==
    IF \E x, y \in Range(values) : x.type # y.type
    THEN Raised("TypeError")
    ELSE CHOOSE m \in Range(values) : \A x \in Range(values) : ~PyLess(x, m)

\* the largest first items and the largest second items of the values
max_per_axis(values) ==
    PyTuple(CHOOSE m \in {x.a : x \in Range(values)} : \A x \in Range(values) : x.a <= m,
          CHOOSE m \in {x.b : x \in Range(values)} : \A x \in Range(values) : x.b <= m)

\* the values of a value choice with plain candidates
traverse_all_options(value_choice) == value_choice.candidates

\* MixedConv2d._to_tuple
_to_tuple(value) == IF value.type # "tuple" THEN PyTuple(value.a, value.a) ELSE value

\* bound_type of the native mixed operations
Classes == {"Linear", "Conv2d", "BatchNorm2d", "MultiheadAttention"}

\* argument_list of each class
argument_list(class) ==
    CASE class = "Linear" -> {"in_features", "out_features"}
      [] class = "Conv2d" ->
           {"in_channels", "out_channels", "kernel_size", "stride", "padding", "dilation",
            "groups"}
      [] class = "BatchNorm2d" -> {"num_features", "eps", "momentum"}
      [] class = "MultiheadAttention" -> {"embed_dim", "num_heads", "kdim", "vdim", "dropout"}

\* name == ['kernel_size', 'padding']: a str is never equal to a list
str_equals_list(name, list) == FALSE

\* super_init_argument of each class
super_init_argument(class, name, value_choice) ==
    IF class # "Conv2d"
    THEN py_max(traverse_all_options(value_choice))
    ELSE IF name \notin {"in_channels", "out_channels", "groups", "stride", "kernel_size",
                         "padding", "dilation"}
         THEN Raised("NotImplementedError")
         ELSE IF str_equals_list(name, <<"kernel_size", "padding">>)
              THEN LET all_sizes == traverse_all_options(value_choice)
                   IN  IF \E k \in 1..Len(all_sizes) : all_sizes[k].type = "tuple"
                       THEN max_per_axis(all_sizes)
                       ELSE py_max(all_sizes)
              ELSE IF name = "groups"
                   THEN py_min(traverse_all_options(value_choice))
                   ELSE py_max(traverse_all_options(value_choice))

PyNone == [type |-> "None"]

\* the arguments a module of each class is constructed with, where they are
\* no value choice (those left out by the user have the bound type's default)
module_kwargs(class) ==
    CASE class = "Linear" ->
           [in_features |-> PyInt(MaxSize), out_features |-> PyInt(MaxSize), bias |-> PyInt(1)]
      [] class = "Conv2d" ->
           [in_channels |-> PyInt(MaxSize), out_channels |-> PyInt(MaxSize),
            kernel_size |-> PyInt(3), stride |-> PyInt(1), padding |-> PyInt(1),
            dilation |-> PyInt(1), groups |-> PyInt(1), bias |-> PyInt(1)]
      [] class = "BatchNorm2d" ->
           [num_features |-> PyInt(MaxSize), eps |-> PyInt(1), momentum |-> PyInt(1),
            bias |-> PyInt(1)]
      [] class = "MultiheadAttention" ->
           [embed_dim |-> PyInt(MaxSize), num_heads |-> PyInt(1), kdim |-> PyNone,
            vdim |-> PyNone, dropout |-> PyInt(0), bias |-> PyInt(1)]

\* ValueChoice(candidates)
ValueChoice(candidates) == [type |-> "ValueChoice", candidates |-> candidates]

\* nn.Conv2d.__init__ keeps kernel_size and padding as pairs
Conv2d_attribute(name, value) ==
    IF name \in {"kernel_size", "padding"} THEN _to_tuple(value) ELSE value

\* a parameter tensor that exists, and one registered as None
Parameter == [type |-> "Parameter"]

\* super().__init__(**super_init_kwargs) of MixedMultiHeadAttention, which is
\* nn.MultiheadAttention.__init__: kdim and vdim default to embed_dim; one
\* concatenated in_proj_weight when the three dimensions are equal, separate
\* q, k and v projection weights otherwise, the other registered as None
MultiheadAttention_super_init(kwargs) ==
    LET kdim == IF kwargs.kdim = PyNone THEN kwargs.embed_dim ELSE kwargs.kdim
        vdim == IF kwargs.vdim = PyNone THEN kwargs.embed_dim ELSE kwargs.vdim
        same == kdim = kwargs.embed_dim /\ vdim = kwargs.embed_dim
    IN  [name \in DOMAIN kwargs |->
            CASE name = "kdim" -> kdim
              [] name = "vdim" -> vdim
              [] OTHER -> kwargs[name]]
        @@ [qkv_same_embed_dim |-> same,
            in_proj_weight |-> IF same THEN Parameter ELSE PyNone,
            in_proj_bias |-> Parameter,
            q_proj_weight |-> IF same THEN PyNone ELSE Parameter,
            k_proj_weight |-> IF same THEN PyNone ELSE Parameter,
            v_proj_weight |-> IF same THEN PyNone ELSE Parameter]

\* MixedMultiHeadAttention.__post_init__: a kdim or vdim that was given, equals
\* embed_dim in the super-kernel and can change (itself mutable, or embed_dim
\* mutable) breaks the tie; the separate projection weights are then added
\* and in_proj_weight is registered as None
MultiheadAttention_post_init(op) ==
    LET breaks(dimension) ==
            /\ op.init_arguments[dimension] # PyNone
            /\ op.attributes[dimension] = op.attributes.embed_dim
            /\ (dimension \in DOMAIN op.mutable_arguments
                   \/ "embed_dim" \in DOMAIN op.mutable_arguments)
        qkv_same_embed_dim == ~(breaks("kdim") \/ breaks("vdim"))
    IN  IF op.attributes.qkv_same_embed_dim /\ ~qkv_same_embed_dim
        THEN [op EXCEPT !.attributes.qkv_same_embed_dim = FALSE,
                        !.attributes.q_proj_weight = Parameter,
                        !.attributes.k_proj_weight = Parameter,
                        !.attributes.v_proj_weight = Parameter,
                        !.attributes.in_proj_weight = PyNone]
        ELSE op

\* super().__init__(**super_init_kwargs) followed by self.__post_init__()
super_init_and_post_init(op) ==
    IF op.class = "MultiheadAttention"
    THEN MultiheadAttention_post_init(
             [op EXCEPT !.attributes = MultiheadAttention_super_init(op.attributes)])
    ELSE op

\* a variant of MixedOperation_init that accepts a value choice on any
\* argument
MixedOperation_init_unchecked(class, key, value_choice) ==
    [status |-> "built", class |-> class, key |-> key,
     mutable_arguments |-> (key :> value_choice),
     init_arguments |-> [module_kwargs(class) EXCEPT ![key] = value_choice],
     attributes |-> module_kwargs(class)]

\* MixedOperation.__init__ for a module whose argument `key` is the value
\* choice `value_choice`: the operation, or the exception raised
MixedOperation_init(class, key, value_choice) ==
    LET kwargs == [module_kwargs(class) EXCEPT ![key] = value_choice]
    IN  IF key \notin argument_list(class)
        THEN [status |-> "TypeError", class |-> class, key |-> key]
        ELSE LET super_init == super_init_argument(class, key, value_choice)
             IN  IF super_init.type \in {"TypeError", "NotImplementedError"}
                 THEN [status |-> super_init.type, class |-> class, key |-> key]
                 ELSE super_init_and_post_init(
                          [status |-> "built", class |-> class, key |-> key,
                           mutable_arguments |-> (key :> value_choice),
                           init_arguments |-> kwargs,
                           attributes |->
                               [name \in DOMAIN kwargs |->
                                   LET value == IF name = key THEN super_init
                                                ELSE kwargs[name]
                                   IN  IF class = "Conv2d"
                                       THEN Conv2d_attribute(name, value)
                                       ELSE value]])

\* the candidates of a value choice: two different sizes; a kernel size or a
\* padding may also be a pair
Ints == {PyInt(n) : n \in 1..MaxSize}
Pairs == {PyTuple(a, b) : a, b \in {1, 3}}
CandidateLists(key) ==
    LET values == IF key \in {"kernel_size", "padding"} THEN Ints \cup Pairs ELSE Ints
    IN  {<<x, y>> : x, y \in values} \ {<<x, x>> : x \in values}

\* a module with one value choice among its arguments is made a mixed
\* operation: mixed_op = cls(module.trace_kwargs)
MixedOperationInit ==
    /\ operation.status = "none"
    /\ \E class \in Classes :
          \E key \in argument_list(class) \cup {"bias"} :
             \E candidates \in CandidateLists(key) :
                operation' = MixedOperation_init(class, key, ValueChoice(candidates))
    /\ UNCHANGED <<specVars, trainVars, orchVars, result>>

\* some argument among `names` is a weighted distribution:
\* any(isinstance(arg, dict) for arg in [...])
AnyDict(args, names) == \E name \in names : args[name].type = "dict"

\* the index range lo:hi of a slice
Slice(lo, hi) == [lo |-> lo, hi |-> hi]

\* a variant of kernel_crop that takes the kernel from the top left corner
kernel_crop_corner(max_kernel, kernel) ==
    <<Slice(0, _to_tuple(kernel).a), Slice(0, _to_tuple(kernel).b)>>

\* MixedConv2d.forward_with_args: the crop of one concrete kernel size from
\* the centre of the maximal kernel, on both axes
kernel_crop(max_kernel, kernel) ==
    LET kernel_a == _to_tuple(kernel).a
        kernel_b == _to_tuple(kernel).b
        kernel_a_left == (max_kernel.a - kernel_a) \div 2
        kernel_b_top == (max_kernel.b - kernel_b) \div 2
    IN  <<Slice(kernel_a_left, kernel_a_left + kernel_a),
          Slice(kernel_b_top, kernel_b_top + kernel_b)>>

\* the concrete sizes an argument stands for: itself, or each key of the
\* weighted distribution
SizesOf(value) == IF value.type = "dict" THEN value.keys ELSE {value}

\* MixedConv2d.forward_with_args
Conv2d_forward_with_args(op, args) ==
    IF AnyDict(args, {"stride", "dilation", "groups"})
    THEN [outcome |-> "ValueError", log |-> <<>>]
    ELSE LET padding == IF args.kernel_size.type = "dict"
                        THEN op.attributes.padding
                        ELSE args.padding
         IN  [outcome |-> IF padding.type = "dict" THEN "TypeError" ELSE "returned",
              log |-> <<"slice weight", "slice bias", "F.conv2d">>,
              crops |-> {kernel_crop(op.attributes.kernel_size, k) :
                            k \in SizesOf(args.kernel_size)},
              padding |-> padding]

\* MixedBatchNorm2d.forward_with_args
BatchNorm2d_forward_with_args(op, args) ==
    IF AnyDict(args, {"eps", "momentum"})
    THEN [outcome |-> "ValueError", log |-> <<>>]
    ELSE LET num_features == IF args.num_features.type = "dict"
                             THEN op.attributes.num_features
                             ELSE args.num_features
         IN  [outcome |-> "returned",
              log |-> IF num_features.a < op.attributes.num_features.a
                      THEN <<"slice weight", "F.batch_norm">>
                      ELSE <<"F.batch_norm">>,
              num_features |-> num_features]

\* MixedLinear.forward_with_args
Linear_forward_with_args(op, args) ==
    [outcome |-> "returned", log |-> <<"slice weight", "slice bias", "F.linear">>]

\* a variant of _to_proj_slice that packs the three blocks one after the other
to_proj_slice_packed(max_embed_dim, embed_dim) ==
    <<Slice(0, embed_dim), Slice(embed_dim, embed_dim + embed_dim),
      Slice(embed_dim * 2, embed_dim * 2 + embed_dim)>>

\* MixedMultiHeadAttention._to_proj_slice, with self.embed_dim = max_embed_dim:
\* the q, k and v blocks of the concatenated in-projection
_to_proj_slice(max_embed_dim, embed_dim) ==
    <<Slice(0, embed_dim), Slice(max_embed_dim, max_embed_dim + embed_dim),
      Slice(max_embed_dim * 2, max_embed_dim * 2 + embed_dim)>>

\* MixedMultiHeadAttention.forward_with_args: the path is chosen by comparing
\* the sampled kdim and vdim with the sampled embed_dim; slicing a projection
\* weight that is None, or handing None to the combined in-projection, fails
\* with a TypeError
MultiheadAttention_forward_with_args(op, args) ==
    IF AnyDict(args, {"num_heads", "dropout"})
    THEN [outcome |-> "ValueError", log |-> <<>>]
    ELSE LET kdim == IF args.kdim = PyNone THEN args.embed_dim ELSE args.kdim
             vdim == IF args.vdim = PyNone THEN args.embed_dim ELSE args.vdim
             qkv_same_embed_dim == kdim = args.embed_dim /\ vdim = args.embed_dim
             slices == {_to_proj_slice(op.attributes.embed_dim.a, e.a) :
                           e \in SizesOf(args.embed_dim)}
             in_proj_weight == IF op.attributes.in_proj_weight # PyNone THEN slices ELSE {}
             absent == IF qkv_same_embed_dim
                       THEN op.attributes.in_proj_weight = PyNone
                       ELSE PyNone \in {op.attributes.q_proj_weight,
                                        op.attributes.k_proj_weight,
                                        op.attributes.v_proj_weight}
         IN  [outcome |-> IF absent THEN "TypeError" ELSE "returned",
              log |-> <<"slice in_proj", "slice out_proj", "F.multi_head_attention_forward">>,
              use_separate_proj_weight |-> ~qkv_same_embed_dim,
              embed_dim |-> args.embed_dim,
              in_proj_bias |-> slices,
              in_proj_weight |-> in_proj_weight]

forward_with_args(op, args) ==
    CASE op.class = "Linear" -> Linear_forward_with_args(op, args)
      [] op.class = "Conv2d" -> Conv2d_forward_with_args(op, args)
      [] op.class = "BatchNorm2d" -> BatchNorm2d_forward_with_args(op, args)
      [] op.class = "MultiheadAttention" -> MultiheadAttention_forward_with_args(op, args)

\* what a sampling policy can return for the mutable argument: one of the
\* candidates, or a weighted distribution over all of them
forward_argument(op, name) ==
    IF name \in DOMAIN op.mutable_arguments
    THEN LET candidates == Range(traverse_all_options(op.mutable_arguments[name]))
         IN  candidates \cup {PyDict(candidates)}
    ELSE {op.init_arguments[name]}

\* MixedOperation.forward: the sampled arguments, then forward_with_args
ForwardWithArgs ==
    /\ operation.status = "built" /\ result = NoResult
    /\ \E sampled \in forward_argument(operation, operation.key) :
          LET args == [name \in argument_list(operation.class) |->
                          IF name = operation.key THEN sampled
                          ELSE operation.init_arguments[name]]
          IN  result' = forward_with_args(operation, args) @@ [sampled |-> sampled]
    /\ UNCHANGED <<specVars, trainVars, orchVars, operation>>

NextOps ==
    \/ MixedOperationInit
    \/ ForwardWithArgs

SpecOps == Init /\ [][NextOps]_vars

(* ------------------------ multi-head attention ------------------------- *)

\* the two sizes a dimension of the attention can have
AttentionSizes == {PyInt(MaxSize \div 2), PyInt(MaxSize)}

\* ValueChoice([...], label=label) over the two sizes; two arguments with the
\* same label are tied to one choice
LabelledChoice(label) ==
    [label |-> label] @@ ValueChoice(<<PyInt(MaxSize \div 2), PyInt(MaxSize)>>)

\* MixedOperation.__init__ of MixedMultiHeadAttention for module_kwargs with
\* any number of value choices among embed_dim, kdim and vdim
MixedMultiHeadAttention_init(kwargs) ==
    LET mutable == {name \in DOMAIN kwargs : kwargs[name].type = "ValueChoice"}
    IN  super_init_and_post_init(
            [status |-> "built", class |-> "MultiheadAttention", key |-> "",
             mutable_arguments |-> [name \in mutable |-> kwargs[name]],
             init_arguments |-> kwargs,
             attributes |->
                 [name \in DOMAIN kwargs |->
                     IF name \in mutable
                     THEN super_init_argument("MultiheadAttention", name, kwargs[name])
                     ELSE kwargs[name]]])

\* nn.MultiheadAttention(embed_dim, num_heads, kdim=..., vdim=...) is made a
\* mixed operation: each of the three dimensions is fixed or a value choice,
\* kdim and vdim may also be left out
AttentionInit ==
    /\ operation.status = "none"
    /\ \E embed_dim \in AttentionSizes \cup {LabelledChoice("a")} :
          \E kdim, vdim \in {PyNone} \cup AttentionSizes
                                \cup {LabelledChoice("a"), LabelledChoice("b")} :
             operation' = MixedMultiHeadAttention_init(
                              [module_kwargs("MultiheadAttention") EXCEPT
                                  !.embed_dim = embed_dim, !.kdim = kdim, !.vdim = vdim])
    /\ UNCHANGED <<specVars, trainVars, orchVars, result>>

\* What the sampling policy returns for the arguments in one forward: for
\* every label one candidate (path sampling), or for every mutable argument
\* the weighted distribution of its label (MixedOpDifferentiablePolicy). The
\* distributions of two labels hold different weights and are not equal.
SampledArguments(op) ==
    LET labels == {op.mutable_arguments[name].label : name \in DOMAIN op.mutable_arguments}
        candidates == Range(LabelledChoice("a").candidates)
        argument(name, sample) ==
            IF name \in DOMAIN op.mutable_arguments
            THEN sample[op.mutable_arguments[name].label]
            ELSE op.init_arguments[name]
    IN  {[name \in argument_list(op.class) |-> argument(name, sample)] :
            sample \in [labels -> candidates]
                        \cup {[l \in labels |-> [label |-> l] @@ PyDict(candidates)]}}

\* MixedOperation.forward of the attention
AttentionForward ==
    /\ operation.status = "built" /\ result = NoResult
    /\ \E args \in SampledArguments(operation) :
          result' = forward_with_args(operation, args)
    /\ UNCHANGED <<specVars, trainVars, orchVars, operation>>

NextAttention ==
    \/ AttentionInit
    \/ AttentionForward

SpecAttention == Init /\ [][NextAttention]_vars

(* --------------------------- the mutation hooks ------------------------ *)

\* NATIVE_MIXED_OPERATIONS, in its order
NATIVE_MIXED_OPERATIONS == <<"Linear", "Conv2d", "BatchNorm2d", "MultiheadAttention">>

no_default_hook == [hook |-> "no_default_hook", bound_type |-> ""]

\* a variant of default_mutation_hooks that leaves no_default_hook out
default_mutation_hooks_open(variant) ==
    IF variant = "proxyless"
    THEN <<[hook |-> "ProxylessMixedLayer.mutate", bound_type |-> "LayerChoice"],
           [hook |-> "ProxylessMixedInput.mutate", bound_type |-> "InputChoice"]>>
    ELSE <<[hook |-> "DifferentiableMixedLayer.mutate", bound_type |-> "LayerChoice"],
           [hook |-> "DifferentiableMixedInput.mutate", bound_type |-> "InputChoice"]>>
         \o [i \in 1..Len(NATIVE_MIXED_OPERATIONS) |->
               [hook |-> "MixedOperation.mutate", bound_type |-> NATIVE_MIXED_OPERATIONS[i]]]

\* default_mutation_hooks() of DartsLightningModule, ProxylessLightningModule
\* and GumbelDartsLightningModule
default_mutation_hooks(variant) ==
    IF variant = "proxyless"
    THEN <<[hook |-> "ProxylessMixedLayer.mutate", bound_type |-> "LayerChoice"],
           [hook |-> "ProxylessMixedInput.mutate", bound_type |-> "InputChoice"],
           no_default_hook>>
    ELSE (<<[hook |-> "DifferentiableMixedLayer.mutate", bound_type |-> "LayerChoice"],
            [hook |-> "DifferentiableMixedInput.mutate", bound_type |-> "InputChoice"]>>
          \o [i \in 1..Len(NATIVE_MIXED_OPERATIONS) |->
                [hook |-> "MixedOperation.mutate", bound_type |-> NATIVE_MIXED_OPERATIONS[i]]])
         \o <<no_default_hook>>

\* a module without choices and without value-choice arguments
PlainModule ==
    [kind |-> "Module", label |-> "", size |-> 0, n_chosen |-> None, reduction |-> "sum",
     space |-> Empty]

\* The submodules the traversal meets, each with its type: layer and input
\* choices, native layers and a custom @basic_unit operation with value-choice
\* arguments, a Repeat block, and a native layer with none.
Submodules ==
    {[type |-> "LayerChoice", module |-> m] : m \in LayerChoices}
    \cup {[type |-> "InputChoice", module |-> m] :
             m \in {c \in InputChoices : c.reduction = "sum" /\ c.n_chosen = None}}
    \cup {[type |-> t, module |-> m] :
             t \in Range(NATIVE_MIXED_OPERATIONS) \cup {"CustomOp"}, m \in ValueChoiceOps}
    \cup {[type |-> t, module |-> PlainModule] : t \in {"Repeat", "Linear"}}

\* any(isinstance(arg, ValueChoiceX) for arg in the module's trace_kwargs)
has_valuechoice(child) == child.module.kind = "ValueChoiceOp"

\* no_default_hook rejects every mutation primitive and every module with a
\* value choice among its arguments ('... is not supported'), and returns True
\* for the rest
no_default_hook_call(child) ==
    IF child.type \in {"LayerChoice", "InputChoice", "Repeat"} \/ has_valuechoice(child)
    THEN "raise" ELSE "True"

\* a variant of hook_result in which MixedOperation.mutate replaces every
\* module of its bound type, with value choices or without
hook_result_eager(h, child) ==
    CASE h.hook = "no_default_hook" -> no_default_hook_call(child)
      [] h.hook = "MixedOperation.mutate" ->
           IF child.type = h.bound_type THEN "mixedop" ELSE "None"
      [] h.hook \in {"DifferentiableMixedLayer.mutate", "ProxylessMixedLayer.mutate"} ->
           IF child.type = "LayerChoice" THEN "layer" ELSE "None"
      [] h.hook \in {"DifferentiableMixedInput.mutate", "ProxylessMixedInput.mutate"} ->
           IF child.type = "InputChoice" THEN "input" ELSE "None"

\* What a hook answers for a submodule. The two mixed-layer factories and
\* MixedOperation.mutate fall off their `if` and return None for a module
\* they do not recognise.
hook_result(h, child) ==
    CASE h.hook = "no_default_hook" -> no_default_hook_call(child)
      [] h.hook = "MixedOperation.mutate" ->
           IF child.type = h.bound_type /\ has_valuechoice(child) THEN "mixedop" ELSE "None"
      [] h.hook \in {"DifferentiableMixedLayer.mutate", "ProxylessMixedLayer.mutate"} ->
           IF child.type = "LayerChoice" THEN "layer" ELSE "None"
      [] h.hook \in {"DifferentiableMixedInput.mutate", "ProxylessMixedInput.mutate"} ->
           IF child.type = "InputChoice" THEN "input" ELSE "None"

\* the traversal calls the hooks in order and stops at the first answer that
\* is not None
apply_hooks(hooks, child) ==
    LET answers == {i \in 1..Len(hooks) : hook_result(hooks[i], child) # "None"}
    IN  IF answers = {}
        THEN "None"
        ELSE hook_result(hooks[CHOOSE i \in answers : \A j \in answers : i <= j], child)

\* what lastModule keeps of a submodule the traversal met
Met(child) ==
    [Given(child.module) EXCEPT
        !.kind = CASE child.type \in {"LayerChoice", "InputChoice", "Repeat", "CustomOp"} ->
                        child.type
                   [] has_valuechoice(child) -> "ValueChoiceOp"
                   [] OTHER -> "Module"]

\* the traversal meets one submodule and runs self.default_mutation_hooks()
\* on it
TraverseAndMutate ==
    /\ CanBuild
    /\ \E child \in Submodules, pl \in Places :
          /\ FreePlace(pl)
          /\ lastModule' = Met(child)
          /\ LET answer == apply_hooks(default_mutation_hooks(self.variant), child)
             IN  CASE answer = "layer" -> MutateLayer(child.module, pl)
                   [] answer = "input" -> MutateInput(child.module, pl)
                   [] answer = "mixedop" -> MutateMixedOp(child.module, pl)
                   [] answer = "raise" -> Raise("TypeError: not supported")
                   [] OTHER -> UNCHANGED <<heap, memo, nas, err>>
    /\ lastCall' = [NoCall EXCEPT !.op = "traverse"]
    /\ UNCHANGED <<pc, expMemo, emitted, nCalls, trainVars, orchVars, opVars>>

\* the surrogate factories of a hook list
Factories(hooks) == {hooks[i] : i \in 1..Len(hooks)} \ {no_default_hook}

\* one factory's mutate(module, name, memo, mutate_kwargs), called on its own
MutateCall ==
    /\ CanBuild /\ nCalls < MaxOps
    /\ \E h \in Factories(default_mutation_hooks(self.variant)), child \in Submodules :
          /\ lastModule' = Met(child)
          /\ LET answer == hook_result(h, child)
                 top == [parent |-> 0, slot |-> 0]
             IN  /\ lastCall' = [hook |-> h, type |-> child.type] @@
                                [NoCall EXCEPT !.op = "mutate", !.res = answer]
                 /\ CASE answer = "layer" -> MutateLayer(child.module, top)
                       [] answer = "input" -> MutateInput(child.module, top)
                       [] answer = "mixedop" -> MutateMixedOp(child.module, top)
                       [] OTHER -> UNCHANGED <<heap, memo, nas, err>>
    /\ nCalls' = nCalls + 1
    /\ UNCHANGED <<pc, expMemo, emitted, trainVars, orchVars, opVars>>

\* the module of any variant before its model is traversed
InitHooks ==
    /\ InitSupernet
    /\ InitTraining({}, {})
    /\ InitOperation
    /\ \E variant \in Variants :
          InitOrchestrator(Module_init(variant, DefaultArcLearningRate, 1, FALSE, 1), 1)

NextHooks == TraverseAndMutate \/ MutateCall

SpecHooks == InitHooks /\ [][NextHooks]_vars

(* ------------------------------- claims -------------------------------- *)

Built_by_mutate(i) == nas[i].by = "mutate"
Tied(i, j) == DOMAIN Alphas(nas[i]) \cap DOMAIN Alphas(nas[j])

\* C1: any two surrogates the factories built in one mutation pass for choice
\* points with the same label hold the very same alpha tensor.
C1_TiedLabelsShareAlpha ==
    \A i, j \in 1..Len(nas) :
        (Built_by_mutate(i) /\ Built_by_mutate(j)) =>
            \A l \in Tied(i, j) : Alphas(nas[i])[l] = Alphas(nas[j])[l]

\* C2: two choice points of one mutation pass with the same label and
\* different candidate-set sizes never both become surrogates: mutating the
\* second raises instead.
C2_SizeConflictRaises ==
    \A i, j \in 1..Len(nas) :
        (Built_by_mutate(i) /\ Built_by_mutate(j)) =>
            \A l \in Tied(i, j) : Sizes(nas[i])[l] = Sizes(nas[j])[l]

\* C3: a surrogate's export(memo) returns nothing for a label that an earlier
\* export(memo) of the same surrogate, with the same memo, returned.
C3_ExportIdempotent ==
    lastCall.op = "export" => DOMAIN lastCall.res \cap lastCall.again = {}

\* C4: export(memo) never returns an entry for a label that is already a key
\* of memo.
C4_ExportSkipsMemoLabels ==
    lastCall.op = "export" => DOMAIN lastCall.res \cap lastCall.memo = {}

\* the call just made is export(memo) on a surrogate of this kind whose label
\* is not in memo
ExportedFresh(kind) ==
    /\ lastCall.op = "export"
    /\ nas[lastCall.idx].kind = kind
    /\ nas[lastCall.idx].label \notin lastCall.memo

\* p is argmax(alpha): no value is larger, and no earlier one is equal
IsArgmax(p, alpha) ==
    /\ \A q \in 1..Len(alpha) : alpha[q] <= alpha[p + 1]
    /\ \A q \in 1..p : alpha[q] < alpha[p + 1]

\* C5: for a layer-choice surrogate with k candidates whose label is not in
\* memo, export returns under its label an index in [0, k) equal to
\* argmax(alpha).
C5_LayerExportIsIndex ==
    ExportedFresh("layer") =>
        LET s == nas[lastCall.idx]
            k == Len(s.op_names)
        IN  /\ DOMAIN lastCall.res = {s.label}
            /\ ~IsStr(lastCall.res[s.label])
            /\ lastCall.res[s.label] \in 0..(k - 1)
            /\ IsArgmax(lastCall.res[s.label], heap[s.arch_alpha])

\* C5, amended: for a layer-choice surrogate with k candidates whose label
\* is not in memo, export returns under its label the name (a str) of the
\* candidate at the index in [0, k) that equals argmax(alpha).
C5_LayerExportIsArgmaxName ==
    ExportedFresh("layer") =>
        LET s == nas[lastCall.idx]
            k == Len(s.op_names)
        IN  /\ DOMAIN lastCall.res = {s.label}
            /\ IsStr(lastCall.res[s.label])
            /\ \E p \in 0..(k - 1) :
                  /\ lastCall.res[s.label] = s.op_names[p + 1]
                  /\ IsArgmax(p, heap[s.arch_alpha])

\* C5 witness: a layer-choice export that picked a candidate other than the
\* first one
C5_Witness ==
    /\ ExportedFresh("layer")
    /\ lastCall.res[nas[lastCall.idx].label] = Str("1")

\* C6: constructing a mixed layer or mixed input with len(alpha) different
\* from the number of candidates raises ValueError, and every surrogate that
\* exists has len(alpha) = number of candidates, whatever was called on it.
C6_AlphaLengthIsCandidates ==
    /\ (lastModule.kind \in {"paths", "n_candidates"} /\ lastModule.alpha_len # lastModule.size)
          => err = "ValueError"
    /\ \A i \in 1..Len(nas) :
          /\ \A l \in DOMAIN Alphas(nas[i]) :
                Len(heap[Alphas(nas[i])[l]]) = Sizes(nas[i])[l]
          /\ nas[i].kind = "layer" => Len(nas[i].op_names) = nas[i].n_candidates

\* C6 witness: a constructor call with an alpha of the wrong length raised
C6_Witness ==
    /\ lastModule.kind = "paths"
    /\ lastModule.alpha_len # lastModule.size
    /\ err = "ValueError"
    /\ Len(nas) > 0

\* C7: for an input-choice surrogate with n candidates and n_chosen = k,
\* 2 <= k <= n, whose label is not in memo, export returns under its label
\* exactly k distinct indices of [0, n), ascending, at which alpha is at least
\* as large as at every index left out.
C7_InputExportIsTopK ==
    (ExportedFresh("input") /\ nas[lastCall.idx].n_chosen >= 2) =>
        LET s == nas[lastCall.idx]
            alpha == heap[s.arch_alpha]
            n == s.n_candidates
            chosen == lastCall.res[s.label]
        IN  /\ DOMAIN lastCall.res = {s.label}
            /\ Len(chosen) = s.n_chosen
            /\ \A a \in 1..Len(chosen) : chosen[a] \in 0..(n - 1)
            /\ \A a, b \in 1..Len(chosen) : a < b => chosen[a] < chosen[b]
            /\ \A a \in 1..Len(chosen) :
                  \A u \in (0..(n - 1)) \ Range(chosen) : alpha[chosen[a] + 1] >= alpha[u + 1]

\* C7 witness: two of three inputs are chosen, and they are not the first two
C7_Witness ==
    /\ ExportedFresh("input")
    /\ nas[lastCall.idx].n_candidates = 3
    /\ nas[lastCall.idx].n_chosen = 2
    /\ lastCall.res[nas[lastCall.idx].label] = <<0, 2>>

\* C8: an input choice mutated with n_chosen unspecified gives a surrogate
\* with n_chosen = 1, whose search_space_spec reports a chosen size of 1 and
\* whose export selects exactly one index.
C8_NChosenDefaultsToOne ==
    /\ (lastModule.kind = "InputChoice" /\ lastModule.n_chosen = None /\ err = "none") =>
          /\ nas[Len(nas)].n_chosen = 1
          /\ search_space_spec(nas[Len(nas)])[lastModule.label].chosen_size = 1
    /\ (ExportedFresh("input") /\ lastModule.kind = "InputChoice"
            /\ lastModule.n_chosen = None /\ lastCall.idx = Len(nas)) =>
          lastCall.res[nas[lastCall.idx].label] \in 0..(nas[lastCall.idx].n_candidates - 1)

\* C9: the architecture-phase backward leaves the gradient of every
\* non-architecture parameter at zero or unset, and the weight-phase backward
\* leaves the gradient of every architecture parameter at zero or unset.
C9_BackwardStaysInItsDomain ==
    /\ tpc = "finalize_grad" => \A p \in net.weights : grad[p] = {}
    /\ tpc = "w_step" => \A p \in net.arch : grad[p] = {}

\* C10: weight-domain enumeration (arch=False) of a surrogate yields no
\* architecture tensor, with nested surrogates and with a name prefix too, and
\* arch=True enumeration yields architecture tensors only.
C10_DomainsDisjoint ==
    lastCall.op = "named_parameters" =>
        \A k \in 1..Len(lastCall.res) : IsArchTensor(lastCall.res[k][2]) <=> lastCall.arch

\* the tensors of a list of (name, tensor) pairs
Tensors(named) == {named[k][2] : k \in 1..Len(named)}

\* C11: every parameter a surrogate's enumeration reaches is yielded under
\* exactly one of arch=True and arch=False, the other arguments being equal:
\* never under both, never under neither.
C11_EnumerationsPartition ==
    lastCall.op = "named_parameters" =>
        LET i == lastCall.idx
            other == named_parameters(i, lastCall.prefix, ~lastCall.arch)
            reached == Tensors(super_named_parameters(i, lastCall.prefix))
        IN  /\ Tensors(lastCall.res) \cap Tensors(other) = {}
            /\ Tensors(lastCall.res) \cup Tensors(other) = reached
            /\ Len(lastCall.res) + Len(other) = Cardinality(reached)

\* C11 witness: an arch=True enumeration that yields a tensor and whose
\* arch=False counterpart yields one too
C11_Witness ==
    /\ lastCall.op = "named_parameters"
    /\ lastCall.arch
    /\ Len(lastCall.res) > 0
    /\ Len(named_parameters(lastCall.idx, lastCall.prefix, FALSE)) > 0

\* the events of one training step, in the order of the claim, after the
\* resample and the zeroing of the architecture optimizer that open the step
StepOrder ==
    <<"resample", "arc_zero_grad",
      "arc_forward", "arc_backward", "finalize_grad", "arc_step",
      "resample", "w_zero_grad", "w_forward", "w_backward", "w_step", "lr_sched">>

\* C12: every training_step runs architecture forward, architecture
\* backward, finalize_grad, architecture-optimizer step, resample, zero of the
\* user optimizers, weight forward, weight backward, user-optimizer step,
\* scheduler advance, in this order; each optimizer steps exactly once per
\* training_step, the architecture optimizer first.
C12_FixedOrder ==
    /\ Len(trace) <= Len(StepOrder)
    /\ trace = SubSeq(StepOrder, 1, Len(trace))
    /\ (tpc = "idle" /\ batch_idx > 0) =>
          /\ SubSeq(trace, 3, Len(trace)) = SubSeq(StepOrder, 3, Len(StepOrder))
          /\ Cardinality({k \in 1..Len(trace) : trace[k] = "arc_step"}) = 1
          /\ Cardinality({k \in 1..Len(trace) : trace[k] = "w_step"}) = 1
          /\ \A a, w \in 1..Len(trace) :
                (trace[a] = "arc_step" /\ trace[w] = "w_step") => a < w

\* C12 witness: the second training step of a run has returned
C12_Witness ==
    /\ tpc = "idle"
    /\ batch_idx = 2
    /\ Len(trace) = Len(StepOrder)

\* the forward pass of the phase has run in the training step under way
ArcLossMade == DOMAIN local.arc_step_loss # {}
WLossMade == DOMAIN local.loss_and_metrics # {}

\* C13: the first component of the pair handed to training_step is the batch
\* of the architecture phase, the second the batch of the weight phase.
C13_FirstIsHeldOut ==
    /\ ArcLossMade => local.arc_step_loss.batch = Batch[1]
    /\ WLossMade => local.loss_and_metrics.batch = Batch[2]

\* C13, amended: the pair is (training batch, held-out batch): the second
\* component is the batch of the architecture phase, the first the batch of
\* the weight phase.
C13_FirstIsTraining ==
    /\ ArcLossMade => local.arc_step_loss.batch = Batch[2]
    /\ WLossMade => local.loss_and_metrics.batch = Batch[1]

\* C13 witness: both forward passes of a training step have run
C13_Witness ==
    /\ ArcLossMade
    /\ WLossMade
    /\ local.arc_step_loss.batch = "batch[1]"
    /\ local.loss_and_metrics.batch = "batch[0]"

\* on_epoch_start has run in the current epoch of a Gumbel module
EpochStarted == self.variant = "gumbel" /\ epc \in {"epoch", "forwarded"}

\* C14: after on_epoch_start, the temperature a surrogate's Gumbel-softmax
\* normalizer uses in its forward computation is the orchestrator's current
\* temperature.
C14_NormalizerUsesTemp ==
    (EpochStarted /\ lastCall.op = "softmax") => RatEq(lastCall.res.tau, self.temp)

\* C15: with annealing, at the start of epoch e of E the temperature is
\* max(Tmin, (1 - e/E) * (T0 - Tmin) + Tmin); without, it is T0 in every epoch.
C15_AnnealSchedule ==
    LET e == trainer.current_epoch
        E == trainer.max_epochs
        T0 == self.init_temp
        Tmin == self.min_temp
        linear == (E - e) * (T0 - Tmin) + Tmin * E
    IN  /\ (EpochStarted /\ self.use_temp_anneal) =>
              /\ linear >= Tmin * E => self.temp.num * E = linear * self.temp.den
              /\ linear < Tmin * E => self.temp.num = Tmin * self.temp.den
        /\ (self.variant = "gumbel" /\ ~self.use_temp_anneal) =>
              self.temp.num = T0 * self.temp.den

\* C15 witness: annealing has lowered the temperature in a later epoch, and
\* it is still above the floor
C15_Witness ==
    /\ EpochStarted
    /\ self.use_temp_anneal
    /\ trainer.current_epoch > 0
    /\ RatLess(self.temp, Rat(self.init_temp, 1))
    /\ RatLess(Rat(self.min_temp, 1), self.temp)

\* the call just made is configure_architecture_optimizers
Configured == lastCall.op = "configure_architecture_optimizers"

\* C16: the learning rate of the architecture optimizer that
\* configure_architecture_optimizers builds is the arc_learning_rate given to
\* the module constructor, for each of the three module variants.
C16_LearningRateIsArgument ==
    Configured => lastCall.res.lr = self.arc_learning_rate

\* the architecture tensors the surrogates hold
ArchTensors ==
    UNION {{AlphaTensor(Alphas(nas[i])[l]) : l \in DOMAIN Alphas(nas[i])} : i \in 1..Len(nas)}

\* C17: the architecture optimizer is one optimizer whose parameters are the
\* architecture tensors of all surrogates, each exactly once, also when
\* several surrogates share a tensor, and nothing else.
C17_OptimizerHoldsEachAlphaOnce ==
    Configured =>
        LET params == lastCall.res.params
        IN  /\ \A a, b \in 1..Len(params) : a # b => params[a] # params[b]
            /\ Range(params) = ArchTensors
            /\ \A a \in 1..Len(params) : IsArchTensor(params[a])

\* C17 witness: the optimizer is built for two surrogates that share their
\* alpha tensor
C17_Witness ==
    /\ Configured
    /\ Len(nas) = 2
    /\ nas[1].kind # "mixedop" /\ nas[2].kind # "mixedop"
    /\ nas[1].arch_alpha = nas[2].arch_alpha
    /\ Len(lastCall.res.params) = 1

\* a candidate size fits into the physical size along both axes
Fits(candidate, physical) ==
    /\ _to_tuple(candidate).a <= _to_tuple(physical).a
    /\ _to_tuple(candidate).b <= _to_tuple(physical).b

\* C18: the physical size of a mixed operation along its mutable dimension
\* is at least the size every candidate requires: the maximum candidate for
\* channel and feature counts, the per-axis maximum for kernel_size, so that
\* every candidate's kernel crop lies inside the physical kernel.
C18_PhysicalCoversCandidates ==
    /\ (operation.status = "built"
          /\ operation.key \in {"in_features", "out_features", "in_channels", "out_channels",
                                 "num_features", "embed_dim", "kernel_size"}) =>
          \A k \in 1..Len(operation.mutable_arguments[operation.key].candidates) :
              Fits(operation.mutable_arguments[operation.key].candidates[k],
                   operation.attributes[operation.key])
    /\ (result.outcome = "returned" /\ operation.class = "Conv2d") =>
          \A crop \in result.crops :
              /\ 0 <= crop[1].lo /\ crop[1].hi <= operation.attributes.kernel_size.a
              /\ 0 <= crop[2].lo /\ crop[2].hi <= operation.attributes.kernel_size.b

\* the arguments of each class on which weighted sampling is not supported
Unweightable(class) ==
    CASE class = "Linear" -> {}
      [] class = "Conv2d" -> {"stride", "dilation", "groups", "padding"}
      [] class = "BatchNorm2d" -> {"eps", "momentum"}
      [] class = "MultiheadAttention" -> {"num_heads", "dropout"}

\* C19: when forward receives a weighted distribution for an argument on
\* which weighted sampling is not supported, it raises ValueError before any
\* tensor computation.
C19_WeightedUnsupportedFailsFast ==
    (result.outcome # "none" /\ result.sampled.type = "dict"
        /\ operation.key \in Unweightable(operation.class)) =>
        result.outcome = "ValueError" /\ result.log = <<>>

\* C20: constructing a mixed operation with a value choice on an argument
\* that is not in the operator's argument_list fails with a TypeError, and
\* no mixed operation is produced.
C20_UndeclaredArgumentRaises ==
    (operation.status # "none" /\ operation.key \notin argument_list(operation.class)) =>
        /\ operation.status = "TypeError"
        /\ result = NoResult

\* C20 witness: a value choice on `bias` of a Conv2d was rejected
C20_Witness ==
    /\ operation.status = "TypeError"
    /\ operation.class = "Conv2d"
    /\ operation.key = "bias"

\* C21: resample(memo) of a differentiable surrogate (mixed layer, mixed
\* input, mixed operation under the differentiable policy) returns the empty
\* mapping and changes neither the alpha tensors, nor the memo, nor the
\* surrogates, nor what the export pass holds, whatever the memo contains.
C21_ResampleIsNoOp ==
    [][(lastCall'.op = "resample" /\ nCalls' = nCalls + 1) =>
          /\ lastCall'.res = Empty
          /\ UNCHANGED <<heap, memo, nas, err, expMemo, emitted>>]_vars

\* C21 witness: a mixed operation was resampled with a memo that holds
\* labels
C21_Witness ==
    /\ lastCall.op = "resample"
    /\ lastCall.memo = Labels
    /\ nas[lastCall.idx].kind = "mixedop"

\* the kinds of choice point no surrogate factory of the variant handles
Unhandled(variant) ==
    {"Repeat", "CustomOp"} \cup (IF variant = "proxyless" THEN {"ValueChoiceOp"} ELSE {})

Applicable(call, module) ==
    CASE call.hook.hook = "MixedOperation.mutate" ->
           call.type = call.hook.bound_type /\ module.kind = "ValueChoiceOp"
      [] OTHER -> call.type = call.hook.bound_type

\* C23: a factory's mutate that is not applicable to the module it is given
\* returns None, raises nothing, builds nothing and leaves the memo and the
\* alpha tensors as they were.
C23_NotApplicableReturnsNone ==
    [][(lastCall'.op = "mutate" /\ nCalls' = nCalls + 1
          /\ lastCall'.hook.hook \in {"DifferentiableMixedLayer.mutate",
                                      "DifferentiableMixedInput.mutate",
                                      "MixedOperation.mutate"}
          /\ ~Applicable(lastCall', lastModule')) =>
          /\ lastCall'.res = "None"
          /\ UNCHANGED <<heap, memo, nas, err>>]_vars

\* C23 witness: MixedOperation.mutate of Linear was given a Linear layer
\* without value choices, after a surrogate had been built
C23_Witness ==
    /\ lastCall.op = "mutate"
    /\ lastCall.hook = [hook |-> "MixedOperation.mutate", bound_type |-> "Linear"]
    /\ lastCall.type = "Linear"
    /\ lastModule.kind = "Module"
    /\ Len(nas) > 0

\* position u comes before position v when the scores are sorted in descending
\* order and ties are broken by ascending original index
Before(alpha, u, v) ==
    \/ alpha[u + 1] > alpha[v + 1]
    \/ (alpha[u + 1] = alpha[v + 1] /\ u < v)

\* the k positions that come first in that order
TopKAscendingTies(alpha, k) ==
    {u \in 0..(Len(alpha) - 1) :
        Cardinality({v \in 0..(Len(alpha) - 1) : Before(alpha, v, u)}) < k}

\* C24: when several alpha positions of an input-choice surrogate hold equal
\* values, export breaks the tie by ascending original index: the exported
\* index set is the first n_chosen positions in descending score order with
\* ties in index order, one set for given alpha values and n_chosen.
C24_TiesByAscendingIndex ==
    (ExportedFresh("input") /\ nas[lastCall.idx].n_chosen >= 1) =>
        LET s == nas[lastCall.idx]
            chosen == lastCall.res[s.label]
            indices == IF s.n_chosen = 1 THEN {chosen} ELSE Range(chosen)
        IN  indices = TopKAscendingTies(heap[s.arch_alpha], s.n_chosen)

\* the range lo:hi has k elements, lies within [0, max_k) and sits in the
\* centre of it, the odd cell of margin left at the far end
CentreCrop(crop, max_k, k) ==
    /\ crop.hi - crop.lo = k
    /\ 0 <= crop.lo /\ crop.hi <= max_k
    /\ crop.lo <= max_k - crop.hi /\ max_k - crop.hi <= crop.lo + 1

\* the concrete kernel size the forward just made was given
SampledKernel ==
    IF operation.key = "kernel_size" THEN result.sampled ELSE operation.init_arguments.kernel_size

\* C25: MixedConv2d crops a sampled concrete kernel of size k from the centre
\* of the maximal kernel of size max_k on each axis, at [offset, offset + k)
\* with offset = (max_k - k) // 2; for 1 <= k <= max_k the range has k
\* elements and lies within [0, max_k). A 5*5 kernel gives [1, 4) for k = 3
\* and [1, 3) for k = 2.
C25_KernelCentreCrop ==
    /\ kernel_crop(PyTuple(5, 5), PyInt(3)) = <<Slice(1, 4), Slice(1, 4)>>
    /\ kernel_crop(PyTuple(5, 5), PyInt(2)) = <<Slice(1, 3), Slice(1, 3)>>
    /\ (result.outcome = "returned" /\ operation.class = "Conv2d"
          /\ SampledKernel.type # "dict"
          /\ Fits(SampledKernel, operation.attributes.kernel_size)) =>
          LET max_kernel == operation.attributes.kernel_size
              kernel == _to_tuple(SampledKernel)
          IN  \A crop \in result.crops :
                  /\ CentreCrop(crop[1], max_kernel.a, kernel.a)
                  /\ CentreCrop(crop[2], max_kernel.b, kernel.b)
                  /\ crop[1].lo = (max_kernel.a - kernel.a) \div 2
                  /\ crop[2].lo = (max_kernel.b - kernel.b) \div 2

\* C25 witness: a 1*1 kernel was taken from a 4*4 one, at [1, 2) on each
\* axis
C25_Witness ==
    /\ result.outcome = "returned" /\ operation.class = "Conv2d"
    /\ operation.key = "kernel_size"
    /\ operation.attributes.kernel_size = PyTuple(4, 4)
    /\ result.sampled = PyInt(1)
    /\ result.crops = {<<Slice(1, 2), Slice(1, 2)>>}

\* the attention has made a forward that went past its argument check
AttentionForwarded ==
    /\ operation.status = "built" /\ operation.class = "MultiheadAttention"
    /\ result.outcome \in {"returned", "TypeError"}

\* the index ranges x and y share no index
Disjoint(x, y) == x.hi <= y.lo \/ y.hi <= x.lo

\* C26: the concatenated in-projection weight and bias are sliced into three
\* blocks that start at 0, max_embed_dim and 2 * max_embed_dim, each as long
\* as the embed_dim it is sliced for; for 1 <= embed_dim <= max_embed_dim the
\* blocks are pairwise disjoint and lie within [0, 3 * max_embed_dim).
C26_InProjectionBlocks ==
    AttentionForwarded =>
        LET max_embed_dim == operation.attributes.embed_dim.a
            sizes == {e.a : e \in SizesOf(result.embed_dim)}
        IN  /\ \A e \in sizes : 1 <= e /\ e <= max_embed_dim
            /\ Cardinality(result.in_proj_bias) = Cardinality(sizes)
            /\ \A blocks \in result.in_proj_bias \cup result.in_proj_weight :
                  LET embed_dim == blocks[1].hi - blocks[1].lo
                  IN  /\ embed_dim \in sizes
                      /\ \A i \in 1..3 :
                            /\ blocks[i].lo = (i - 1) * max_embed_dim
                            /\ blocks[i].hi - blocks[i].lo = embed_dim
                            /\ 0 <= blocks[i].lo /\ blocks[i].hi <= 3 * max_embed_dim
                      /\ \A i, j \in 1..3 : i # j => Disjoint(blocks[i], blocks[j])

\* C26 witness: the smaller embed_dim was sampled, and the combined
\* in-projection weight was sliced for it
C26_Witness ==
    /\ AttentionForwarded
    /\ result.embed_dim = PyInt(MaxSize \div 2)
    /\ operation.attributes.embed_dim = PyInt(MaxSize)
    /\ result.in_proj_weight # {}

\* C28: the attention never takes a projection path whose weights are absent:
\* when forward uses the combined in-projection, in_proj_weight is not None,
\* and when it uses the separate projections, the q, k and v projection
\* weights exist.
C28_ProjectionWeightsPresent ==
    AttentionForwarded =>
        IF result.use_separate_proj_weight
        THEN /\ operation.attributes.q_proj_weight # PyNone
             /\ operation.attributes.k_proj_weight # PyNone
             /\ operation.attributes.v_proj_weight # PyNone
        ELSE operation.attributes.in_proj_weight # PyNone

\* C27: each optimizer step uses gradients of exactly one backward pass. When
\* the architecture optimizer has stepped, the .grad each architecture
\* parameter was updated with holds the held-out-batch backward of the
\* current training step and nothing else; when the user optimizers have
\* stepped, the .grad of each of their parameters holds the training-batch
\* backward of the current step and nothing else.
C27_StepUsesOneBackward ==
    /\ tpc = "w_resample" =>
          \A p \in ArcOptimParams : consumed[p] = {<<batch_idx, "arc">>}
    /\ tpc = "lr_sched" =>
          /\ \A p \in UserOptimParams : consumed[p] = {<<batch_idx, "w">>}
          /\ \A p \in ArcOptimParams : consumed[p] = {<<batch_idx, "arc">>}

\* C27 witness: both optimizers have stepped in the second training step,
\* after the backward passes of the first one had reached every parameter
C27_Witness ==
    /\ tpc = "lr_sched"
    /\ batch_idx = 1
    /\ \A p \in AllParams : <<1, "w">> \in grad[p]
    /\ \A p \in UserOptimParams : consumed[p] = {<<1, "w">>}

====
